---- MODULE Spec2Model ----
(***************************************************************************)
(* Levenberg-Marquardt optimisation loop of src/src/lib.rs (`optimize`).   *)
(*                                                                         *)
(* Dimensions: P = 1 parameter and J = 1 residual row per sample, so the   *)
(* Hessian, the gradient and every Jacobian are 1x1; the residual matrix   *)
(* is a sequence of columns of one scalar each.  Scalars of type N are     *)
(* floating point values: an exact rational, +/-infinity or NaN.  The      *)
(* model M is an integer of 0..2.      The three closures are inputs:      *)
(* residuals and jacobians are tables drawn in Init, apply_delta adds the  *)
(* truncated step and wraps around (see `apply_delta`).                    *)
(***************************************************************************)
EXTENDS Integers, Sequences, FiniteSets, TLC

VARIABLES
    config,                  \* Config<N>, the argument of optimize
    init,                    \* the initial guess passed to optimize
    residuals,               \* the closure residuals: M -> residual matrix
    jacobians,               \* the closure jacobians: M -> sequence of Jacobians
    lambda,                  \* let mut lambda
    guess,                   \* let mut guess
    res,                     \* let mut res
    sum_of_squares,          \* let mut sum_of_squares
    consecutive_divergences, \* let mut consecutive_divergences
    total,                   \* let total
    iterations,              \* loop bodies entered so far (position in 0..max_iterations)
    smaller_lambda,          \* let smaller_lambda (per iteration)
    hessian,                 \* let (hessian, _)   (per iteration)
    gradients,               \* let (_, gradients) (per iteration)
    s_vars,                  \* lam_ges_res_sum(smaller_lambda)
    o_vars,                  \* lam_ges_res_sum(lambda)
    new_vars,                \* let new_vars
    pc,                      \* position in optimize
    jacobians_calls,         \* invocations of the closure jacobians in this run
    residuals_calls,         \* invocations of the closure residuals in this run
    apply_delta_calls,       \* invocations of the closure apply_delta in this run
    streak_lambda            \* lambda when the current run of non-adopting iterations began

vars == <<config, init, residuals, jacobians, lambda, guess, res, sum_of_squares,
          consecutive_divergences, total, iterations, smaller_lambda, hessian,
          gradients, s_vars, o_vars, new_vars, pc, jacobians_calls,
          residuals_calls, apply_delta_calls, streak_lambda>>

(***************************************************************************)
(* Bounds of the explored inputs.                                          *)
(***************************************************************************)
MaxIterations == 3
MaxDivergenceLimit == 2
Samples == 2

(***************************************************************************)
(* Scalars of type N (RealField: f32 / f64).                               *)
(***************************************************************************)
Abs(n) == IF n < 0 THEN -n ELSE n

RECURSIVE Gcd(_, _)
Gcd(a, b) == IF b = 0 THEN a ELSE Gcd(b, a % b)

Fin(n, d) ==
    LET s == IF d < 0 THEN -1 ELSE 1
        g == Gcd(Abs(n), Abs(d))
    IN  <<"fin", (s * n) \div g, (s * d) \div g>>

Num(n) == <<"fin", n, 1>>
NaN == <<"nan", 0, 1>>
PosInf == <<"inf", 1, 1>>
NegInf == <<"inf", -1, 1>>
Zero == Num(0)
One == Num(1)

is_finite(x) == x[1] = "fin"
IsNaN(x) == x[1] = "nan"
Sign(x) == IF x[2] > 0 THEN 1 ELSE IF x[2] < 0 THEN -1 ELSE 0

FAdd(x, y) ==
    IF IsNaN(x) \/ IsNaN(y) THEN NaN
    ELSE IF ~is_finite(x) /\ ~is_finite(y) THEN (IF x = y THEN x ELSE NaN)
    ELSE IF ~is_finite(x) THEN x
    ELSE IF ~is_finite(y) THEN y
    ELSE Fin(x[2] * y[3] + y[2] * x[3], x[3] * y[3])

FMul(x, y) ==
    IF IsNaN(x) \/ IsNaN(y) THEN NaN
    ELSE IF ~is_finite(x) \/ ~is_finite(y)
         THEN (IF Sign(x) * Sign(y) = 0 THEN NaN
               ELSE IF Sign(x) * Sign(y) > 0 THEN PosInf ELSE NegInf)
    ELSE Fin(x[2] * y[2], x[3] * y[3])

FInv(x) ==
    IF IsNaN(x) THEN NaN
    ELSE IF ~is_finite(x) THEN Zero
    ELSE Fin(x[3], x[2])

\* x < y on floats: false as soon as one side is NaN.
FLess(x, y) ==
    IF IsNaN(x) \/ IsNaN(y) THEN FALSE
    ELSE IF ~is_finite(x) THEN (x = NegInf /\ y # NegInf)
    ELSE IF ~is_finite(y) THEN y = PosInf
    ELSE x[2] * y[3] < y[2] * x[3]

FGreater(x, y) == FLess(y, x)
FLeq(x, y) == FLess(x, y) \/ (~IsNaN(x) /\ ~IsNaN(y) /\ x = y)

\* The integer a finite scalar truncates to (towards zero).
Trunc(x) == Sign(x) * (Abs(x[2]) \div x[3])

(***************************************************************************)
(* The inputs of optimize.                                                 *)
(***************************************************************************)
Model == 0..2

ResidualEntries == {Num(0), Num(3), Num(4), PosInf, NaN}

\* Residual matrices (J = 1 row, Samples columns); the samples of one matrix
\* carry the same residual.
ResidualMatrices == {[c \in 1..Samples |-> e] : e \in ResidualEntries}

ResidualFns == [Model -> ResidualMatrices]

\* Sequences of 1x1 Jacobians: one per sample when the caller keeps the
\* contract, one fewer or one more when it does not, none where the Jacobian
\* iterator is empty.
JacobianSeq(n) == [k \in 1..n |-> One]

JacobianFns ==
    {[m \in Model |-> JacobianSeq(n)] : n \in (Samples - 1)..(Samples + 1)}
    \cup {[m \in Model |-> IF m \in flat THEN <<>> ELSE JacobianSeq(Samples)] :
              flat \in {{0}, Model}}

Configs ==
    [max_iterations : 0..MaxIterations,
     consecutive_divergence_limit : 0..MaxDivergenceLimit,
     initial_lambda : {Num(1)},
     lambda_convege : {Fin(1, 2)},
     lambda_diverge : {Num(1), Fin(3, 2), Num(2), Num(3)},
     threshold : {Num(0), Num(10)}]

\* apply_delta(&M, Vector<N, P>) -> M: the parameter moves by the truncated
\* step and is normalised back into Model; a non-finite step resets the
\* parameter to 0.
apply_delta(m, delta) ==
    IF is_finite(delta) THEN (m + Trunc(delta)) % Cardinality(Model) ELSE 0

(***************************************************************************)
(* Pieces of optimize.                                                     *)
(***************************************************************************)
None == [some |-> FALSE]
Some(lam, ges, r, sum) == [some |-> TRUE, lam |-> lam, ges |-> ges, res |-> r, sum |-> sum]

RECURSIVE SumSquares(_, _)
SumSquares(m, k) ==
    IF k = 0 THEN Zero ELSE FAdd(SumSquares(m, k - 1), FMul(m[k], m[k]))

\* Matrix::norm_squared
norm_squared(m) == SumSquares(m, Len(m))

Min(a, b) == IF a < b THEN a ELSE b

\* Mutant of ZipLen: nothing is paired unless the two sides have the same
\* length.
ZipLen_OnlyIfEqual(jacs, r) == IF Len(jacs) = Len(r) THEN Len(r) ELSE 0

\* Iterator::zip stops with the shorter of its two sides.
ZipLen(jacs, r) == Min(Len(jacs), Len(r))

\* The fold of lines 160-168: (hessian, gradients) accumulated over the
\* first k (Jacobian, residual column) pairs.
RECURSIVE Fold(_, _, _)
Fold(jacs, r, k) ==
    IF k = 0 THEN <<Zero, Zero>>
    ELSE LET acc == Fold(jacs, r, k - 1)
         IN  <<FAdd(acc[1], FMul(jacs[k], jacs[k])),
               FAdd(acc[2], FMul(jacs[k], r[k]))>>

Assemble(jacs, r) == Fold(jacs, r, ZipLen(jacs, r))

\* JJt with its diagonal multiplied by (lam + 1).
hessian_lambda_diag(h, lam) == FMul(h, FAdd(lam, One))

\* Matrix::try_inverse of a 1x1 matrix: None when the entry is zero.
try_inverse(m) == IF m = Zero THEN None ELSE [some |-> TRUE, inv |-> FInv(m)]

\* The closure lam_ges_res_sum of lines 172-191, on the current guess g with
\* the assembled Hessian h and gradient gr.
lam_ges_res_sum(lam, g, h, gr) ==
    LET inv == try_inverse(hessian_lambda_diag(h, lam))
    IN  IF ~inv.some THEN None
        ELSE LET delta == FMul(inv.inv, gr)
                 ges == apply_delta(g, delta)
                 r == residuals[ges]
                 sum == norm_squared(r)
             IN  IF is_finite(sum) THEN Some(lam, ges, r, sum) ELSE None

\* Mutant of Inverts: a trial goes on to apply_delta and residuals even when
\* the inversion failed.
Inverts_Always(lam, h) == TRUE

\* Whether a trial got as far as calling apply_delta and residuals.
Inverts(lam, h) == try_inverse(hessian_lambda_diag(h, lam)).some

\* Mutant of Select: a tie goes to the smaller-lambda trial.
Select_TieToSmaller(s, o) ==
    IF s.some /\ o.some THEN (IF FLeq(s.sum, o.sum) THEN s ELSE o)
    ELSE IF s.some THEN s
    ELSE IF o.some THEN o
    ELSE None

\* Mutant of Select: a candidate only when both trials succeeded.
Select_NeedsBoth(s, o) ==
    IF s.some /\ o.some THEN (IF FLess(s.sum, o.sum) THEN s ELSE o)
    ELSE None

\* The match of lines 194-198.
Select(s, o) ==
    IF s.some /\ o.some THEN (IF FLess(s.sum, o.sum) THEN s ELSE o)
    ELSE IF s.some THEN s
    ELSE IF o.some THEN o
    ELSE None

\* Mutant of LoopGuard: the inclusive range 0..=max_iterations.
LoopGuard_Inclusive(i, max) == i <= max

\* Line 155: the range 0..max_iterations has another element.
LoopGuard(i, max) == i < max

\* Mutant of NoDecrease: a tie counts as no decrease.
NoDecrease_TieRejected(n_sum, sum) == ~FLess(n_sum, sum)

\* Mutant of NoDecrease: the comparison the other way round.
NoDecrease_Flipped(n_sum, sum) == FLess(n_sum, sum)

\* Line 202: the candidate is no decrease.
NoDecrease(n_sum, sum) == FGreater(n_sum, sum)

\* Mutant of HitDivergenceLimit: the limit has to be exceeded.
HitDivergenceLimit_Above(count, limit) == count > limit

\* Line 223.
HitDivergenceLimit(count, limit) == count = limit

\* Mutant of BelowThreshold: the threshold is not scaled by the entry count.
BelowThreshold_Unscaled(sum, threshold, tot) == FLess(sum, threshold)

\* Mutant of BelowThreshold: a sum equal to the bound stops the run too.
BelowThreshold_Leq(sum, threshold, tot) == FLeq(sum, FMul(threshold, tot))

\* Line 228.
BelowThreshold(sum, threshold, tot) == FLess(sum, FMul(threshold, tot))

(***************************************************************************)
(* optimize as a state machine.                                            *)
(***************************************************************************)
NoLocals ==
    /\ smaller_lambda = Zero
    /\ hessian = Zero
    /\ gradients = Zero
    /\ s_vars = None
    /\ o_vars = None
    /\ new_vars = None

ResetLocals ==
    /\ smaller_lambda' = Zero
    /\ hessian' = Zero
    /\ gradients' = Zero
    /\ s_vars' = None
    /\ o_vars' = None
    /\ new_vars' = None

\* Lines 147-153, for the arguments c (config) and m (init).
Start(c, m) ==
    /\ config' = c
    /\ init' = m
    /\ lambda' = c.initial_lambda
    /\ streak_lambda' = c.initial_lambda
    /\ guess' = m
    /\ res' = residuals'[m]
    /\ sum_of_squares' = norm_squared(residuals'[m])
    /\ consecutive_divergences' = 0
    /\ total' = Num(Len(residuals'[m]))
    /\ iterations' = 0
    /\ ResetLocals
    /\ pc' = "loop"
    /\ jacobians_calls' = 0
    /\ residuals_calls' = 1
    /\ apply_delta_calls' = 0

Init ==
    /\ config \in Configs
    /\ init \in Model
    /\ residuals \in ResidualFns
    /\ jacobians \in JacobianFns
    /\ lambda = config.initial_lambda
    /\ streak_lambda = config.initial_lambda
    /\ guess = init
    /\ res = residuals[init]
    /\ sum_of_squares = norm_squared(residuals[init])
    /\ consecutive_divergences = 0
    /\ total = Num(Len(residuals[init]))
    /\ iterations = 0
    /\ NoLocals
    /\ pc = "loop"
    /\ jacobians_calls = 0
    /\ residuals_calls = 1
    /\ apply_delta_calls = 0

\* Lines 155-168: the loop takes another iteration; smaller_lambda, then the
\* Hessian and the gradient from jacobians(&guess) zipped with the columns
\* of res.
Iterate ==
    /\ pc = "loop"
    /\ LoopGuard(iterations, config.max_iterations)
    /\ iterations' = iterations + 1
    /\ smaller_lambda' = FMul(lambda, config.lambda_convege)
    /\ LET hg == Assemble(jacobians[guess], res)
       IN  /\ hessian' = hg[1]
           /\ gradients' = hg[2]
    /\ jacobians_calls' = jacobians_calls + 1
    /\ pc' = "trials"
    /\ UNCHANGED streak_lambda
    /\ UNCHANGED <<config, init, residuals, jacobians, lambda, guess, res,
                   sum_of_squares, consecutive_divergences, total, s_vars,
                   o_vars, new_vars, residuals_calls, apply_delta_calls>>

\* Lines 194-198: both trials, then the selection.
Trials ==
    /\ pc = "trials"
    /\ LET s == lam_ges_res_sum(smaller_lambda, guess, hessian, gradients)
           o == lam_ges_res_sum(lambda, guess, hessian, gradients)
           n == (IF Inverts(smaller_lambda, hessian) THEN 1 ELSE 0)
                + (IF Inverts(lambda, hessian) THEN 1 ELSE 0)
       IN  /\ s_vars' = s
           /\ o_vars' = o
           /\ new_vars' = Select(s, o)
           /\ residuals_calls' = residuals_calls + n
           /\ apply_delta_calls' = apply_delta_calls + n
    /\ pc' = "accept"
    /\ UNCHANGED streak_lambda
    /\ UNCHANGED <<config, init, residuals, jacobians, lambda, guess, res,
                   sum_of_squares, consecutive_divergences, total, iterations,
                   smaller_lambda, hessian, gradients, jacobians_calls>>

\* Mutant of Reject: lambda grows from the candidate's lambda.
Reject_CandidateLambda ==
    /\ pc = "accept"
    /\ new_vars.some
    /\ NoDecrease(new_vars.sum, sum_of_squares)
    /\ lambda' = FMul(new_vars.lam, config.lambda_diverge)
    /\ consecutive_divergences' = consecutive_divergences + 1
    /\ pc' = "check"
    /\ UNCHANGED streak_lambda
    /\ UNCHANGED <<config, init, residuals, jacobians, guess, res,
                   sum_of_squares, total, iterations, smaller_lambda, hessian,
                   gradients, s_vars, o_vars, new_vars, jacobians_calls,
                   residuals_calls, apply_delta_calls>>

\* Lines 200-206: a candidate that is no decrease.
Reject ==
    /\ pc = "accept"
    /\ new_vars.some
    /\ NoDecrease(new_vars.sum, sum_of_squares)
    /\ lambda' = FMul(lambda, config.lambda_diverge)
    /\ consecutive_divergences' = consecutive_divergences + 1
    /\ pc' = "check"
    /\ UNCHANGED streak_lambda
    /\ UNCHANGED <<config, init, residuals, jacobians, guess, res,
                   sum_of_squares, total, iterations, smaller_lambda, hessian,
                   gradients, s_vars, o_vars, new_vars, jacobians_calls,
                   residuals_calls, apply_delta_calls>>

\* Mutant of Adopt: the residual matrix is not replaced with the guess.
Adopt_StaleRes ==
    /\ pc = "accept"
    /\ new_vars.some
    /\ ~NoDecrease(new_vars.sum, sum_of_squares)
    /\ lambda' = new_vars.lam
    /\ streak_lambda' = new_vars.lam
    /\ guess' = new_vars.ges
    /\ sum_of_squares' = new_vars.sum
    /\ consecutive_divergences' = 0
    /\ pc' = "check"
    /\ UNCHANGED <<config, init, residuals, jacobians, res, total, iterations,
                   smaller_lambda, hessian, gradients, s_vars, o_vars,
                   new_vars, jacobians_calls, residuals_calls,
                   apply_delta_calls>>

\* Lines 207-214: the candidate replaces the state.
Adopt ==
    /\ pc = "accept"
    /\ new_vars.some
    /\ ~NoDecrease(new_vars.sum, sum_of_squares)
    /\ lambda' = new_vars.lam
    /\ streak_lambda' = new_vars.lam
    /\ guess' = new_vars.ges
    /\ res' = new_vars.res
    /\ sum_of_squares' = new_vars.sum
    /\ consecutive_divergences' = 0
    /\ pc' = "check"
    /\ UNCHANGED <<config, init, residuals, jacobians, total, iterations,
                   smaller_lambda, hessian, gradients, s_vars, o_vars,
                   new_vars, jacobians_calls, residuals_calls,
                   apply_delta_calls>>

\* Mutant of NoCandidate: lambda restarts from initial_lambda.
NoCandidate_ResetsLambda ==
    /\ pc = "accept"
    /\ ~new_vars.some
    /\ lambda' = FMul(config.initial_lambda, config.lambda_diverge)
    /\ consecutive_divergences' = consecutive_divergences + 1
    /\ pc' = "check"
    /\ UNCHANGED streak_lambda
    /\ UNCHANGED <<config, init, residuals, jacobians, guess, res,
                   sum_of_squares, total, iterations, smaller_lambda, hessian,
                   gradients, s_vars, o_vars, new_vars, jacobians_calls,
                   residuals_calls, apply_delta_calls>>

\* Mutant of NoCandidate: lambda is left as it is.
NoCandidate_KeepsLambda ==
    /\ pc = "accept"
    /\ ~new_vars.some
    /\ consecutive_divergences' = consecutive_divergences + 1
    /\ pc' = "check"
    /\ UNCHANGED streak_lambda
    /\ UNCHANGED <<config, init, residuals, jacobians, lambda, guess, res,
                   sum_of_squares, total, iterations, smaller_lambda, hessian,
                   gradients, s_vars, o_vars, new_vars, jacobians_calls,
                   residuals_calls, apply_delta_calls>>

\* Lines 215-220: no candidate.
NoCandidate ==
    /\ pc = "accept"
    /\ ~new_vars.some
    /\ lambda' = FMul(lambda, config.lambda_diverge)
    /\ consecutive_divergences' = consecutive_divergences + 1
    /\ pc' = "check"
    /\ UNCHANGED streak_lambda
    /\ UNCHANGED <<config, init, residuals, jacobians, guess, res,
                   sum_of_squares, total, iterations, smaller_lambda, hessian,
                   gradients, s_vars, o_vars, new_vars, jacobians_calls,
                   residuals_calls, apply_delta_calls>>

\* The locals of one iteration go out of scope.
EndIteration ==
    /\ ResetLocals
    /\ UNCHANGED streak_lambda
    /\ UNCHANGED <<config, init, residuals, jacobians, lambda, guess, res,
                   sum_of_squares, consecutive_divergences, total, iterations,
                   jacobians_calls, residuals_calls, apply_delta_calls>>

\* Lines 222-225.
BreakDivergence ==
    /\ pc = "check"
    /\ HitDivergenceLimit(consecutive_divergences, config.consecutive_divergence_limit)
    /\ pc' = "done"
    /\ EndIteration

\* Lines 227-230.
BreakThreshold ==
    /\ pc = "check"
    /\ ~HitDivergenceLimit(consecutive_divergences, config.consecutive_divergence_limit)
    /\ BelowThreshold(sum_of_squares, config.threshold, total)
    /\ pc' = "done"
    /\ EndIteration

\* Line 231: back to the loop head.
Continue ==
    /\ pc = "check"
    /\ ~HitDivergenceLimit(consecutive_divergences, config.consecutive_divergence_limit)
    /\ ~BelowThreshold(sum_of_squares, config.threshold, total)
    /\ pc' = "loop"
    /\ EndIteration

\* Mutant of Exhausted: the threshold is also tested at the loop head.
Exhausted_OrBelowThreshold ==
    /\ pc = "loop"
    /\ \/ ~LoopGuard(iterations, config.max_iterations)
       \/ BelowThreshold(sum_of_squares, config.threshold, total)
    /\ pc' = "done"
    /\ UNCHANGED streak_lambda
    /\ UNCHANGED <<config, init, residuals, jacobians, lambda, guess, res,
                   sum_of_squares, consecutive_divergences, total, iterations,
                   smaller_lambda, hessian, gradients, s_vars, o_vars,
                   new_vars, jacobians_calls, residuals_calls,
                   apply_delta_calls>>

\* Lines 155 and 233: the range 0..max_iterations is used up; guess is returned.
Exhausted ==
    /\ pc = "loop"
    /\ ~LoopGuard(iterations, config.max_iterations)
    /\ pc' = "done"
    /\ UNCHANGED streak_lambda
    /\ UNCHANGED <<config, init, residuals, jacobians, lambda, guess, res,
                   sum_of_squares, consecutive_divergences, total, iterations,
                   smaller_lambda, hessian, gradients, s_vars, o_vars,
                   new_vars, jacobians_calls, residuals_calls,
                   apply_delta_calls>>

\* The caller runs optimize again on the model it returned, with the same
\* configuration and closures.
Rerun ==
    /\ pc = "done"
    /\ UNCHANGED <<residuals, jacobians>>
    /\ Start(config, guess)

Step ==
    \/ Iterate
    \/ Trials
    \/ Reject
    \/ Adopt
    \/ NoCandidate
    \/ BreakDivergence
    \/ BreakThreshold
    \/ Continue
    \/ Exhausted

Next == Step \/ Rerun

Spec == Init /\ [][Next]_vars

(***************************************************************************)
(* Claims.                                                                 *)
(***************************************************************************)
InitialSum == norm_squared(residuals[init])
Limit == config.consecutive_divergence_limit
InRun == pc # "done"

\* C1 (as stated): from one step of a run to the next, sum_of_squares is
\* either unchanged or replaced by a candidate's sum that is <= the current
\* sum.
C1_AdoptsOnlyLeq ==
    [][InRun => \/ sum_of_squares' = sum_of_squares
                \/ FLeq(sum_of_squares', sum_of_squares)]_vars

\* C1 (amended): sum_of_squares never increases.  A step of a run leaves it
\* unchanged or replaces it by a finite candidate sum that is not greater
\* than it, and that is <= it whenever the current sum is not NaN; a NaN sum
\* (the initial guess's) is replaced by any finite candidate.
C1_NeverIncreases ==
    [][InRun => \/ sum_of_squares' = sum_of_squares
                \/ /\ is_finite(sum_of_squares')
                   /\ ~FGreater(sum_of_squares', sum_of_squares)
                   /\ ~IsNaN(sum_of_squares) =>
                          FLeq(sum_of_squares', sum_of_squares)]_vars

\* An iteration has adopted a candidate strictly better than a finite
\* initial sum.
C1_Witness ==
    /\ pc = "check"
    /\ iterations = 1
    /\ is_finite(InitialSum)
    /\ FLess(sum_of_squares, InitialSum)

\* C2: with consecutive_divergence_limit = 0, optimize assembles at most one
\* Hessian/gradient pair, whether the first iteration adopts or fails.
C2_LimitZeroOneAssembly ==
    Limit = 0 => jacobians_calls <= 1

\* Steps a run may still take: 0 once optimize has returned, otherwise the
\* steps left in this iteration plus four for each iteration not yet entered.
StepsLeft ==
    IF pc = "done" THEN 0
    ELSE 1 + 4 * (config.max_iterations - iterations)
           + (CASE pc = "loop" -> 0
                [] pc = "check" -> 1
                [] pc = "accept" -> 2
                [] pc = "trials" -> 3)

\* The guards of the steps of Step: some step of the run is enabled.
CanStep ==
    \/ pc = "loop" /\ LoopGuard(iterations, config.max_iterations)
    \/ pc = "loop" /\ ~LoopGuard(iterations, config.max_iterations)
    \/ pc = "trials"
    \/ pc = "accept" /\ new_vars.some /\ NoDecrease(new_vars.sum, sum_of_squares)
    \/ pc = "accept" /\ new_vars.some /\ ~NoDecrease(new_vars.sum, sum_of_squares)
    \/ pc = "accept" /\ ~new_vars.some
    \/ pc = "check" /\ HitDivergenceLimit(consecutive_divergences, Limit)
    \/ /\ pc = "check"
       /\ ~HitDivergenceLimit(consecutive_divergences, Limit)
       /\ BelowThreshold(sum_of_squares, config.threshold, total)
    \/ /\ pc = "check"
       /\ ~HitDivergenceLimit(consecutive_divergences, Limit)
       /\ ~BelowThreshold(sum_of_squares, config.threshold, total)

\* C3: whatever the configuration (lambda_diverge = 1 included) and the
\* trial outcomes, optimize terminates within max_iterations loop iterations:
\* the loop body is entered at most max_iterations times, a run that has not
\* returned can always take a step, every step lowers the non-negative
\* StepsLeft, and the run ends only by the divergence limit, the threshold
\* test or the exhaustion of the iterations.
C3_Terminates ==
    [][InRun =>
           /\ iterations' <= config.max_iterations
           /\ jacobians_calls' <= config.max_iterations
           /\ 0 <= StepsLeft'
           /\ StepsLeft' < StepsLeft
           /\ InRun' => CanStep'
           /\ ~InRun' =>
                  \/ consecutive_divergences' = Limit
                  \/ BelowThreshold(sum_of_squares', config.threshold, total)
                  \/ iterations = config.max_iterations]_vars

\* A run with lambda_diverge = 1 has used up all its iterations.
C3_Witness ==
    /\ pc = "done"
    /\ config.lambda_diverge = One
    /\ config.max_iterations = MaxIterations
    /\ iterations = config.max_iterations

\* C4: with max_iterations = 0 and threshold = 0 the loop body never runs:
\* jacobians and apply_delta are never called and the returned model is init.
C4_ZeroIterationsReturnsInit ==
    (config.max_iterations = 0 /\ config.threshold = Zero) =>
        /\ pc \in {"loop", "done"}
        /\ guess = init
        /\ iterations = 0
        /\ jacobians_calls = 0
        /\ apply_delta_calls = 0

C4_Witness ==
    /\ pc = "done"
    /\ config.max_iterations = 0
    /\ config.threshold = Zero
    /\ guess = init

C6_CounterBoundedByLimit ==
    Limit >= 1 =>
        /\ consecutive_divergences <= Limit
        /\ consecutive_divergences = Limit => pc \in {"check", "done"}

\* A run ended by two non-adopting iterations in a row, after an adoption.
C6_Witness ==
    /\ pc = "done"
    /\ Limit = 2
    /\ consecutive_divergences = 2
    /\ iterations = 3

\* C7 (as stated): an iteration in which a trial failed multiplies lambda by
\* lambda_diverge and increments the counter.
C7_FailedTrialDiverges ==
    [][(pc = "accept" /\ (~s_vars.some \/ ~o_vars.some)) =>
           /\ lambda' = FMul(lambda, config.lambda_diverge)
           /\ consecutive_divergences' = consecutive_divergences + 1]_vars

\* C7 (amended): a failed trial never ends the run.  When both trials fail,
\* lambda is multiplied by lambda_diverge and the counter is incremented;
\* when exactly one fails, the other trial is the candidate and goes through
\* the ordinary acceptance test.
C7_SoftFailure ==
    [][(pc = "accept" /\ (~s_vars.some \/ ~o_vars.some)) =>
           /\ pc' = "check"
           /\ (~s_vars.some /\ ~o_vars.some) =>
                  /\ lambda' = FMul(lambda, config.lambda_diverge)
                  /\ consecutive_divergences' = consecutive_divergences + 1
           /\ (s_vars.some \/ o_vars.some) =>
                  /\ new_vars = (IF s_vars.some THEN s_vars ELSE o_vars)
                  /\ IF FGreater(new_vars.sum, sum_of_squares)
                     THEN /\ lambda' = FMul(lambda, config.lambda_diverge)
                          /\ consecutive_divergences' = consecutive_divergences + 1
                     ELSE /\ lambda' = new_vars.lam
                          /\ consecutive_divergences' = 0]_vars

\* Exactly one trial failed and the other one was adopted.
C7_Witness ==
    /\ pc = "check"
    /\ s_vars.some # o_vars.some
    /\ consecutive_divergences = 0
    /\ lambda = new_vars.lam

\* C8: from an initial guess with a finite sum, the returned model's
\* recomputed sum is no greater than the initial guess's; running optimize
\* again on the returned model starts from that sum and so never exceeds it.
C8_ReturnNoWorse ==
    (pc = "done" /\ is_finite(InitialSum)) =>
        FLeq(norm_squared(residuals[guess]), InitialSum)

\* A run returned a model strictly better than its finite initial guess.
C8_Witness ==
    /\ pc = "done"
    /\ is_finite(InitialSum)
    /\ guess # init
    /\ FLess(norm_squared(residuals[guess]), InitialSum)

\* C9: with both trials successful the smaller-lambda trial is the candidate
\* iff its sum is strictly lower (a tie selects the current-lambda trial);
\* with exactly one successful trial that one is the candidate; with none
\* there is no candidate.
C9_Selection ==
    pc \in {"accept", "check"} =>
        /\ (s_vars.some /\ o_vars.some) =>
               /\ new_vars = s_vars <=> FLess(s_vars.sum, o_vars.sum)
               /\ new_vars = o_vars <=> ~FLess(s_vars.sum, o_vars.sum)
        /\ (s_vars.some /\ ~o_vars.some) => new_vars = s_vars
        /\ (~s_vars.some /\ o_vars.some) => new_vars = o_vars
        /\ (~s_vars.some /\ ~o_vars.some) => ~new_vars.some

\* Both trials succeeded with the same sum on different guesses.
C9_Witness ==
    /\ pc = "accept"
    /\ s_vars.some
    /\ o_vars.some
    /\ s_vars.sum = o_vars.sum
    /\ s_vars.ges # o_vars.ges
    /\ new_vars = o_vars

\* C10: a candidate whose sum is strictly greater than the current sum
\* leaves guess, res and sum_of_squares unchanged, sets lambda to the
\* pre-iteration lambda times lambda_diverge and adds one to the counter.
C10_RejectFrame ==
    [][(pc = "accept" /\ new_vars.some
            /\ FGreater(new_vars.sum, sum_of_squares)) =>
           /\ guess' = guess
           /\ res' = res
           /\ sum_of_squares' = sum_of_squares
           /\ lambda' = FMul(lambda, config.lambda_diverge)
           /\ consecutive_divergences' = consecutive_divergences + 1]_vars

\* A smaller-lambda candidate on another guess has just been rejected.
C10_Witness ==
    /\ pc = "check"
    /\ new_vars.some
    /\ new_vars.ges # guess
    /\ new_vars.lam = smaller_lambda
    /\ lambda # FMul(new_vars.lam, config.lambda_diverge)
    /\ FGreater(new_vars.sum, sum_of_squares)
    /\ consecutive_divergences >= 1

C12_NoCandidateFrame ==
    [][(pc = "accept" /\ ~s_vars.some /\ ~o_vars.some) =>
           /\ guess' = guess
           /\ res' = res
           /\ sum_of_squares' = sum_of_squares
           /\ total' = total
           /\ lambda' = FMul(lambda, config.lambda_diverge)
           /\ consecutive_divergences' = consecutive_divergences + 1]_vars

\* Both trials inverted the damped Hessian and failed by a non-finite sum,
\* from a finite current sum, and lambda has grown.
C12_Witness ==
    /\ pc = "check"
    /\ ~s_vars.some
    /\ ~o_vars.some
    /\ hessian # Zero
    /\ is_finite(sum_of_squares)
    /\ consecutive_divergences = 1
    /\ FGreater(lambda, config.initial_lambda)

\* threshold times the number of scalar entries of the residual matrix.
ThresholdBound == FMul(config.threshold, Num(Len(res)))

\* C13: after an iteration that leaves sum_of_squares strictly below
\* threshold times the number of residual entries the run ends with the
\* current guess; with the sum equal to or above that bound and the
\* divergence limit not reached, the loop goes on while iterations remain.
C13_ThresholdStop ==
    [][/\ (pc = "check" /\ FLess(sum_of_squares, ThresholdBound)) =>
              (pc' = "done" /\ guess' = guess)
       /\ (pc = "check" /\ FLeq(ThresholdBound, sum_of_squares)
               /\ consecutive_divergences # Limit) =>
              pc' = "loop"
       /\ (pc = "loop" /\ iterations < config.max_iterations) =>
              pc' = "trials"]_vars

\* An iteration left the sum at or above threshold and below threshold
\* times the entry count, with iterations remaining and the limit not hit.
C13_Witness ==
    /\ pc = "check"
    /\ consecutive_divergences # Limit
    /\ iterations < config.max_iterations
    /\ FLess(sum_of_squares, ThresholdBound)
    /\ FLeq(config.threshold, sum_of_squares)

RECURSIVE FPow(_, _)
FPow(x, k) == IF k = 0 THEN One ELSE FMul(FPow(x, k - 1), x)

\* lambda after the consecutive non-adopting iterations counted so far,
\* starting from the lambda at the beginning of that streak.
CompoundedLambda ==
    FMul(streak_lambda, FPow(config.lambda_diverge, consecutive_divergences))

\* C14: after k consecutive non-adopting iterations starting from lambda L,
\* lambda is L * lambda_diverge^k (it is never reset to initial_lambda), and
\* the next iteration tests L * lambda_diverge^k * lambda_converge and
\* L * lambda_diverge^k.
C14_LambdaCompounds ==
    /\ lambda = CompoundedLambda
    /\ pc \in {"trials", "accept"} =>
           smaller_lambda = FMul(CompoundedLambda, config.lambda_convege)
    /\ (pc = "accept" /\ s_vars.some) =>
           s_vars.lam = FMul(CompoundedLambda, config.lambda_convege)
    /\ (pc = "accept" /\ o_vars.some) => o_vars.lam = CompoundedLambda

\* After two non-adopting iterations from L = initial_lambda with
\* lambda_diverge = 3/2, the third iteration has tested L * 9/4 * c and
\* L * 9/4.
C14_Witness ==
    /\ pc = "accept"
    /\ consecutive_divergences = 2
    /\ config.lambda_diverge = Fin(3, 2)
    /\ streak_lambda = config.initial_lambda
    /\ s_vars.some
    /\ o_vars.some
    /\ o_vars.lam = FMul(config.initial_lambda, Fin(9, 4))
    /\ s_vars.lam = FMul(FMul(config.initial_lambda, Fin(9, 4)), config.lambda_convege)

\* A step that ends an iteration without adopting a candidate.
NonAdopting ==
    /\ pc = "accept"
    /\ consecutive_divergences' = consecutive_divergences + 1

\* The lambdas tested by the iteration that is ending, and by the next one.
TestedLambdas == {smaller_lambda, lambda}
NextLambdas == {FMul(lambda', config.lambda_convege), lambda'}

\* lambda_diverge * lambda_converge, which is > 1 iff lambda_diverge is
\* above 1 / lambda_converge (lambda_converge > 0).
DivergeTimesConverge == FMul(config.lambda_diverge, config.lambda_convege)

LambdaPrecondition ==
    /\ FGreater(lambda, Zero)
    /\ FGreater(config.lambda_convege, Zero)
    /\ FLess(config.lambda_convege, One)

C16_StateConsistent ==
    /\ res = residuals[guess]
    /\ sum_of_squares = norm_squared(res)
    /\ pc = "accept" =>
           /\ s_vars = lam_ges_res_sum(smaller_lambda, guess, hessian, gradients)
           /\ o_vars = lam_ges_res_sum(lambda, guess, hessian, gradients)
           /\ \A t \in {s_vars, o_vars} :
                  t.some => /\ t.res = residuals[t.ges]
                            /\ t.sum = norm_squared(t.res)

\* A run that returns a model other than init, with other residuals.
C16_Witness ==
    /\ pc = "done"
    /\ guess # init
    /\ res # residuals[init]
    /\ sum_of_squares # InitialSum

\* C17: the threshold test is never applied to the initial guess.  With
\* max_iterations >= 1 the first pass of the loop head always starts an
\* iteration, whatever the initial sum; that iteration assembles the Hessian
\* once and runs both trials; and a run only stops at the end of an executed
\* iteration or at a used-up loop head.
C17_ThresholdAfterIteration ==
    [][/\ (pc = "loop" /\ iterations = 0 /\ config.max_iterations >= 1) =>
              /\ pc' = "trials"
              /\ jacobians_calls' = 1
              /\ guess' = init
       /\ pc = "trials" =>
              /\ pc' = "accept"
              /\ s_vars' = lam_ges_res_sum(smaller_lambda, guess, hessian, gradients)
              /\ o_vars' = lam_ges_res_sum(lambda, guess, hessian, gradients)
       /\ (pc # "done" /\ pc' = "done" /\ config.max_iterations >= 1) =>
              /\ iterations >= 1
              /\ jacobians_calls >= 1
              /\ \/ pc = "check"
                 \/ pc = "loop" /\ iterations = config.max_iterations]_vars

\* A run whose initial sum was already below threshold * total, stopped by
\* the threshold test after its first iteration, which adopted a candidate.
C17_Witness ==
    /\ pc = "done"
    /\ iterations = 1
    /\ iterations < config.max_iterations
    /\ consecutive_divergences = 0
    /\ BelowThreshold(InitialSum, config.threshold, total)
    /\ guess # init
    /\ sum_of_squares # InitialSum

\* The number of the two trials whose damped Hessian is invertible.
InvertedTrials ==
    Cardinality({i \in 1..2 :
        FMul(hessian, FAdd(<<smaller_lambda, lambda>>[i], One)) # Zero})

\* The guess a trial with damping lam is evaluated on.
TrialGuess(lam) ==
    apply_delta(guess, FMul(FInv(FMul(hessian, FAdd(lam, One))), gradients))

\* C18: jacobians is called exactly once per executed iteration, on the
\* current guess, and its Hessian/gradient pair is the one both trials use;
\* residuals is called once before the loop and then once per trial whose
\* inversion succeeds (at most twice per iteration), each time on a guess
\* that apply_delta produced from the current guess; no other step calls
\* either of them.
C18_CallCounts ==
    [][/\ jacobians_calls = iterations
       /\ residuals_calls = 1 + apply_delta_calls
       /\ residuals_calls <= 1 + 2 * iterations
       /\ pc \in {"trials", "accept"} =>
              <<hessian, gradients>> = Assemble(jacobians[guess], res)
       /\ (pc = "loop" /\ pc' = "trials") =>
              /\ jacobians_calls' = jacobians_calls + 1
              /\ residuals_calls' = residuals_calls
              /\ <<hessian', gradients'>> = Assemble(jacobians[guess], res)
       /\ pc = "trials" =>
              /\ jacobians_calls' = jacobians_calls
              /\ residuals_calls' = residuals_calls + InvertedTrials
              /\ apply_delta_calls' = apply_delta_calls + InvertedTrials
              /\ s_vars'.some =>
                     /\ s_vars'.ges = TrialGuess(smaller_lambda)
                     /\ s_vars'.res = residuals[s_vars'.ges]
              /\ o_vars'.some =>
                     /\ o_vars'.ges = TrialGuess(lambda)
                     /\ o_vars'.res = residuals[o_vars'.ges]
       /\ pc \in {"accept", "check"} =>
              /\ jacobians_calls' = jacobians_calls
              /\ residuals_calls' = residuals_calls
       /\ pc = "done" =>
              /\ jacobians_calls' = 0
              /\ residuals_calls' = 1]_vars

\* The second iteration of a run that moved off init: two calls of jacobians
\* and five of residuals so far.
C18_Witness ==
    /\ pc = "accept"
    /\ iterations = 2
    /\ jacobians_calls = 2
    /\ residuals_calls = 5
    /\ apply_delta_calls = 4
    /\ guess # init
    /\ s_vars.some /\ o_vars.some

\* The number of (Jacobian, residual column) pairs of the current guess.
Pairs ==
    IF Len(jacobians[guess]) <= Len(res) THEN Len(jacobians[guess])
    ELSE Len(res)

\* J * J^T and J * r summed over the pairs k, k-1, ..., 1.
RECURSIVE PairSums(_)
PairSums(k) ==
    IF k = 0 THEN <<Zero, Zero>>
    ELSE LET J == jacobians[guess][k]
             rest == PairSums(k - 1)
         IN  <<FAdd(FMul(J, J), rest[1]), FAdd(FMul(J, res[k]), rest[2])>>

\* C19: whatever the number of Jacobians produced, the assembly reports no
\* error: the Hessian and the gradient are the sums over the first
\* min(number of Jacobians, number of residual columns) pairs, taken in
\* order, the surplus on either side is ignored, and the iteration goes on
\* to its trials.
C19_ZipsToShorter ==
    [][/\ pc \in {"trials", "accept"} =>
              <<hessian, gradients>> = PairSums(Pairs)
       /\ (pc = "loop" /\ iterations < config.max_iterations) =>
              /\ pc' = "trials"
              /\ <<hessian', gradients'>> = PairSums(Pairs)
       /\ pc = "trials" => pc' = "accept"]_vars

\* An iteration whose Jacobian sequence is one longer than the residual
\* matrix has columns: the trials ran on the Hessian of the common prefix.
C19_Witness ==
    /\ pc = "accept"
    /\ Len(jacobians[guess]) = Len(res) + 1
    /\ hessian = Num(Len(res))
    /\ gradients # Zero
    /\ new_vars.some

====
